---- MODULE Spec2Model ----
(***************************************************************************)
(* Model of clomonitor-core/src/linter/primary.rs: the primary-repository  *)
(* linter.  lint() reads the project configuration, fetches the GitHub     *)
(* metadata, resolves four report sections concurrently under              *)
(* tokio::try_join!, resolves the license section and assembles a Report.  *)
(*                                                                         *)
(* The checks themselves (check::path::exists, check::content::matches,    *)
(* the GitHub gateway ...) are the environment: what each one answers in a *)
(* run is an input of the run, fixed in env by Init.  An answer is "T"     *)
(* (true), "F" (false) or "E" (the check fails with its own error; the     *)
(* error is identified by the name of the check occurrence).               *)
(*                                                                         *)
(* The four section functions are futures polled by one task: a future     *)
(* runs without interruption from one `.await` to the next, so the checks  *)
(* that are not awaited are evaluated inside the step that reaches them.   *)
(* The first poll of the join polls the four futures in an order that the  *)
(* source does not fix; after it, the awaited checks answer in any order.  *)
(***************************************************************************)
EXTENDS Integers, Sequences, FiniteSets, TLC

\* At most this many inputs of a run differ from their default ("F", no
\* homepage, no license, no configuration file).
MaxNonDefault == 2

\* The same bound for the runs whose termination is checked.
MaxFairNonDefault == 1

Sections == {"documentation", "best_practices", "security", "legal"}

\* ------------------------------------------------------------------------
\* The evidence sources of each section, in evaluation order.

E(src, fn) == [src |-> src, fn |-> fn]

\* One `a? || b? || c.await?` expression: item is the field it is bound to,
\* k the position of the source in the chain, n the length of the chain.
Chain(item, es) ==
    [k \in 1..Len(es) |->
        [item |-> item, k |-> k, n |-> Len(es), src |-> es[k].src, fn |-> es[k].fn]]

lint_documentation ==
       Chain("adopters", <<E("adopters.file", "path::exists"),
                           E("adopters.readme", "content::matches")>>)
    \o Chain("code_of_conduct", <<E("code_of_conduct.file", "path::exists"),
                                  E("code_of_conduct.readme", "content::matches"),
                                  E("code_of_conduct.default", "has_default_community_health_file")>>)
    \o Chain("contributing", <<E("contributing.file", "path::exists"),
                               E("contributing.readme", "content::matches"),
                               E("contributing.default", "has_default_community_health_file")>>)
    \o Chain("changelog", <<E("changelog.file", "path::exists"),
                            E("changelog.readme", "content::matches"),
                            E("changelog.release", "last_release_body_matches")>>)
    \o Chain("governance", <<E("governance.file", "path::exists"),
                             E("governance.readme", "content::matches")>>)
    \o Chain("maintainers", <<E("maintainers.file", "path::exists")>>)
    \o Chain("readme", <<E("readme.file", "path::exists")>>)
    \o Chain("roadmap", <<E("roadmap.file", "path::exists"),
                          E("roadmap.readme", "content::matches")>>)

lint_best_practices ==
       Chain("artifacthub_badge", <<E("artifacthub_badge.readme", "content::matches")>>)
    \o Chain("community_meeting", <<E("community_meeting.readme", "content::matches")>>)
    \o Chain("dco", <<E("dco.commits", "commits_have_dco_signature"),
                      E("dco.last_pr", "last_pr_has_dco_check")>>)
    \o Chain("openssf_badge", <<E("openssf_badge.readme", "content::matches")>>)
    \o Chain("recent_release", <<E("recent_release.release", "has_recent_release")>>)

\* lint_security with the sources in another order: the gateway is asked first.
lint_security_remote_first ==
    Chain("security_policy", <<E("security_policy.default", "has_default_community_health_file"),
                               E("security_policy.file", "path::exists"),
                               E("security_policy.readme", "content::matches")>>)

lint_security ==
    Chain("security_policy", <<E("security_policy.file", "path::exists"),
                               E("security_policy.readme", "content::matches"),
                               E("security_policy.default", "has_default_community_health_file")>>)

lint_legal ==
    Chain("trademark_footer", <<E("trademark_footer.remote", "remote_matches")>>)

Prog(sec) ==
    CASE sec = "documentation"  -> lint_documentation
      [] sec = "best_practices" -> lint_best_practices
      [] sec = "security"       -> lint_security
      [] sec = "legal"          -> lint_legal

Entries == UNION {{Prog(sec)[p] : p \in 1..Len(Prog(sec))} : sec \in Sections}
Sources == {e.src : e \in Entries}

\* The checks that are awaited (`.await`): the task can be suspended on them.
Async(fn) ==
    fn \in {"has_default_community_health_file", "last_release_body_matches",
            "last_pr_has_dco_check", "has_recent_release", "remote_matches"}

\* ------------------------------------------------------------------------
\* Inputs of a run.

LicenseSources == {"license.detect", "license.find"}
Slots == Sources \cup LicenseSources \cup {"config", "get_metadata", "homepage", "license"}

SrcSeq(prog) == [p \in 1..Len(prog) |-> prog[p].src]

SlotSeq ==
       SrcSeq(lint_documentation) \o SrcSeq(lint_best_practices)
    \o SrcSeq(lint_security) \o SrcSeq(lint_legal)
    \o <<"license.detect", "license.find", "config", "get_metadata", "homepage", "license">>

\* The values an input can take; the first one is its default.
Values(slot) ==
    CASE slot \in Sources        -> <<"F", "T", "E">>
      [] slot = "license.detect" -> <<"none", "MIT", "GPL-3.0", "E">>
      [] slot = "license.find"   -> <<"none", "https://app.fossa.com/p", "E">>
      [] slot = "config"         -> <<"None", "NoScanning", "NoUrl", "https://scan.example/p", "E">>
      [] slot = "get_metadata"   -> <<"ok", "E">>
      [] slot = "homepage"       -> <<"none", "", "https://example.org">>
      [] slot = "license"        -> <<"none", "NOASSERTION", "Apache-2.0", "GPL-3.0">>

Default(slot) == Values(slot)[1]

\* The sets of at most k positions of SlotSeq.
RECURSIVE IndexSets(_)
IndexSets(k) ==
    IF k = 0 THEN {{}}
    ELSE LET S == IndexSets(k - 1)
         IN  S \cup {D \cup {i} : D \in S, i \in 1..Len(SlotSeq)}

\* The inputs that take the values chosen by f at the positions D and their
\* default elsewhere.
EnvOf(D, f) ==
    [s \in Slots |->
        LET i == CHOOSE i \in 1..Len(SlotSeq) : SlotSeq[i] = s
        IN  IF i \in D THEN Values(s)[f[i]] ELSE Default(s)]

VARIABLES
    env,       \* the inputs of the run: what each check or fetch answers
    pc,        \* position of lint(): "start", "fetch", "join", "license", "done"
    md,        \* the Option<Metadata> read by Metadata::from (None before)
    gh_md,     \* the Repository fetched by github::get_metadata
    status,    \* per section future: "idle", "awaiting", "done", "failed"
    err,       \* per section future: the error it returned ("none" if none)
    pos,       \* per section: index in Prog(sec) of the source being awaited
    vals,      \* per section: the item locals bound so far (item -> BOOLEAN)
    calls,     \* per check occurrence: number of times it was invoked
    ret,       \* per check occurrence: what it returned ("none" before)
    result     \* what lint() returned: kind "none", "ok" (report) or "err" (error)

vars == <<env, pc, md, gh_md, status, err, pos, vals, calls, ret, result>>

Ops == Slots \ {"homepage", "license"}

\* Option<T>: None is the empty sequence, Some(v) the one-element sequence.
None == <<>>
Some(v) == <<v>>
\* An input value as an Option: the input "none" stands for None.
Opt(x) == IF x = "none" THEN None ELSE Some(x)

NoVals == <<>>
Unfetched == [homepage |-> "unfetched", license |-> "unfetched"]

Inputs(k) ==
    \E D \in IndexSets(k) :
        \E f \in [D -> 2..5] :
            /\ \A i \in D : f[i] <= Len(Values(SlotSeq[i]))
            /\ env = EnvOf(D, f)

Init ==
    /\ Inputs(MaxNonDefault)
    /\ pc = "start"
    /\ md = None
    /\ gh_md = Unfetched
    /\ status = [sec \in Sections |-> "idle"]
    /\ err = [sec \in Sections |-> "none"]
    /\ pos = [sec \in Sections |-> 0]
    /\ vals = [sec \in Sections |-> NoVals]
    /\ calls = [s \in Ops |-> 0]
    /\ ret = [s \in Ops |-> "none"]
    /\ result = [kind |-> "none", error |-> "none", report |-> None]

\* Err with the error replaced by one that no longer tells its origin.
Err_generic(e) == [kind |-> "err", error |-> "lint failed", report |-> None]

\* Result<Report, Error>
Err(e) == [kind |-> "err", error |-> e, report |-> None]
Ok(r) == [kind |-> "ok", error |-> "none", report |-> Some(r)]

\* What Metadata::from returns for the configuration file content c.
Metadata_from(c) ==
    CASE c = "None"       -> None
      [] c = "NoScanning" -> Some([license_scanning |-> None])
      [] c = "NoUrl"      -> Some([license_scanning |-> Some([url |-> None])])
      [] OTHER            -> Some([license_scanning |-> Some([url |-> Some(c)])])

\* ------------------------------------------------------------------------
\* lint(), the sequential prefix.

\* let md = Metadata::from(options.root.join(METADATA_FILE))?;
\* ReadMetadata with a configuration that cannot be read taken as absent.
ReadMetadata_lenient ==
    /\ pc = "start"
    /\ calls' = [calls EXCEPT !["config"] = @ + 1]
    /\ ret' = [ret EXCEPT !["config"] = env["config"]]
    /\ md' = IF env["config"] = "E" THEN None ELSE Metadata_from(env["config"])
    /\ pc' = "fetch"
    /\ UNCHANGED <<env, gh_md, status, err, pos, vals, result>>

ReadMetadata ==
    /\ pc = "start"
    /\ calls' = [calls EXCEPT !["config"] = @ + 1]
    /\ ret' = [ret EXCEPT !["config"] = env["config"]]
    /\ IF env["config"] = "E"
       THEN /\ result' = Err("config")
            /\ pc' = "done"
            /\ md' = md
       ELSE /\ md' = Metadata_from(env["config"])
            /\ pc' = "fetch"
            /\ result' = result
    /\ UNCHANGED <<env, gh_md, status, err, pos, vals>>

\* let gh_md = github::get_metadata(options.url).await?;
GetMetadata ==
    /\ pc = "fetch"
    /\ calls' = [calls EXCEPT !["get_metadata"] = @ + 1]
    /\ ret' = [ret EXCEPT !["get_metadata"] = env["get_metadata"]]
    /\ IF env["get_metadata"] = "E"
       THEN /\ result' = Err("get_metadata")
            /\ pc' = "done"
            /\ gh_md' = gh_md
       ELSE /\ gh_md' = [homepage |-> env["homepage"], license |-> env["license"]]
            /\ pc' = "join"
            /\ result' = result
    /\ UNCHANGED <<env, md, status, err, pos, vals>>

\* ------------------------------------------------------------------------
\* The section futures.

\* Propagates with every error swallowed, as `.unwrap_or(false)` everywhere.
Propagates_never(fn, o) == FALSE

\* Propagates with `?` on every check, the DCO commit inspection included.
Propagates_always(fn, o) == o = "E"

\* What `?` (or, for the DCO commit inspection, `.unwrap_or(false)`) does
\* with the answer o of check fn: TRUE iff the error leaves the function.
Propagates(fn, o) == o = "E" /\ fn # "commits_have_dco_signature"

\* AsBool with every check that returned Ok counted as true.
AsBool_is_ok(o) == o # "E"

\* The boolean a check contributes to its `||` chain.
AsBool(o) == o = "T"

\* has_homepage without the is_empty test.
has_homepage_some(gh) == gh.homepage # "none"

\* Some(url) with a non-empty url: lint_legal's guard of remote_matches.
has_homepage(gh) == gh.homepage # "none" /\ gh.homepage # ""

\* website with the is_empty test the wrong way round.
website_inverted(gh) == IF gh.homepage = "none" THEN FALSE ELSE gh.homepage = ""

\* let website = match &gh_md.homepage { Some(url) => !url.is_empty(), None => false };
website(gh) == IF gh.homepage = "none" THEN FALSE ELSE gh.homepage # ""

\* Is the check of entry e evaluated at all once control reaches it?
Attempted(e, gh) == e.fn = "remote_matches" => has_homepage(gh)

\* AfterAnswer without the short-circuit, as `|` in place of `||`.
AfterAnswer_eager(sec, p, b) == p + 1

\* `||` short-circuit: the entry control moves to when entry p answered b.
AfterAnswer(sec, p, b) ==
    LET e == Prog(sec)[p] IN IF b THEN p + (e.n - e.k) + 1 ELSE p + 1

\* Finish without the fields that no chain of checks binds.
Finish_bare(sec, v, gh) == v

\* The struct literal that ends a section function.
Finish(sec, v, gh) ==
    IF sec = "documentation" THEN ("website" :> website(gh)) @@ v ELSE v

\* Run(sec, p, s, gh): the future of section sec runs from entry p until it
\* is suspended on an awaited check, returns its section, or returns an
\* error.  s = [vals, inv, ans] is what it has done so far in this poll: the
\* items bound, the checks invoked, the checks that answered.
\* Resume(sec, p, s, gh): the check of entry p has answered; control
\* continues after it.
\* Then(F, sec, p, s, gh): control goes on with F at entry p in state s,
\* both of them values by now.
RECURSIVE Run(_, _, _, _), Resume(_, _, _, _)
Then(F, sec, p, s, gh) ==
    CHOOSE x \in {IF F = "Run" THEN Run(sec, q, t, gh) ELSE Resume(sec, q, t, gh) :
                    q \in {p}, t \in {s}} : TRUE

Run(sec, p, s, gh) ==
    IF p > Len(Prog(sec))
    THEN [st |-> "done", pos |-> p, vals |-> Finish(sec, s.vals, gh),
          inv |-> s.inv, ans |-> s.ans, err |-> "none"]
    ELSE LET e == Prog(sec)[p] IN
         IF ~Attempted(e, gh)
         THEN Then("Run", sec, p + 1, [s EXCEPT !.vals = (e.item :> FALSE) @@ @], gh)
         ELSE LET s1 == [s EXCEPT !.inv = @ \cup {e.src}] IN
              IF Async(e.fn)
              THEN [st |-> "awaiting", pos |-> p, vals |-> s1.vals,
                    inv |-> s1.inv, ans |-> s1.ans, err |-> "none"]
              ELSE Then("Resume", sec, p, s1, gh)

Resume(sec, p, s, gh) ==
    LET e  == Prog(sec)[p]
        o  == env[e.src]
        s1 == [s EXCEPT !.ans = @ \cup {e.src}]
        b  == AsBool(o)
    IN  IF Propagates(e.fn, o)
        THEN [st |-> "failed", pos |-> p, vals |-> NoVals,
              inv |-> s1.inv, ans |-> s1.ans, err |-> e.src]
        ELSE IF b \/ e.k = e.n
        THEN Then("Run", sec, AfterAnswer(sec, p, b),
                  [s1 EXCEPT !.vals = (e.item :> b) @@ @], gh)
        ELSE Then("Run", sec, AfterAnswer(sec, p, b), s1, gh)

\* The state of the join: the part of the state the section futures and the
\* join itself write, with the checks invoked (inv) and answered (ans) in the
\* current poll of the join.
JoinState ==
    [pc |-> pc, status |-> status, err |-> err, pos |-> pos, vals |-> vals,
     result |-> result,
     inv |-> {}, ans |-> {}]

\* Joined as tokio::join! followed by `?` on each result would do it: the join
\* goes on until the four futures have returned, and only then gives the
\* error of a failed one.
Joined_waits(j, sec, r) ==
    LET st     == [j.status EXCEPT ![sec] = r.st]
        er     == [j.err EXCEPT ![sec] = r.err]
        fin    == \A t \in Sections : st[t] \in {"done", "failed"}
        failed == {t \in Sections : st[t] = "failed"}
    IN  [pc     |-> IF ~fin THEN "join" ELSE IF failed = {} THEN "license" ELSE "done",
         status |-> st,
         err    |-> er,
         pos    |-> [j.pos EXCEPT ![sec] = r.pos],
         vals   |-> [j.vals EXCEPT ![sec] = r.vals],
         result |-> IF fin /\ failed # {}
                    THEN Err(er[CHOOSE t \in failed : TRUE]) ELSE j.result,
         inv    |-> j.inv \cup r.inv,
         ans    |-> j.ans \cup r.ans]

\* Joined with a join that returns only when all four futures returned Ok:
\* it records an Err and goes on waiting.
Joined_hangs(j, sec, r) ==
    LET st == [j.status EXCEPT ![sec] = r.st] IN
    [pc     |-> IF \A t \in Sections : st[t] = "done" THEN "license" ELSE "join",
     status |-> st,
     err    |-> [j.err EXCEPT ![sec] = r.err],
     pos    |-> [j.pos EXCEPT ![sec] = r.pos],
     vals   |-> [j.vals EXCEPT ![sec] = r.vals],
     result |-> j.result,
     inv    |-> j.inv \cup r.inv,
     ans    |-> j.ans \cup r.ans]

\* Joined with futures that share what they found: lint_legal takes the
\* website from the documentation section, and finds none when that section
\* is not done yet.
Joined_racy(j, sec, r) ==
    IF r.st = "failed"
    THEN [pc     |-> "done",
          status |-> [j.status EXCEPT ![sec] = "failed"],
          err    |-> [j.err EXCEPT ![sec] = r.err],
          pos    |-> [j.pos EXCEPT ![sec] = r.pos],
          vals   |-> [t \in Sections |-> NoVals],
          result |-> Err(r.err),
          inv    |-> j.inv \cup r.inv,
          ans    |-> j.ans \cup r.ans]
    ELSE LET st == [j.status EXCEPT ![sec] = r.st] IN
         [pc     |-> IF \A t \in Sections : st[t] = "done" THEN "license" ELSE "join",
          status |-> st,
          err    |-> j.err,
          pos    |-> [j.pos EXCEPT ![sec] = r.pos],
          vals   |-> [j.vals EXCEPT ![sec] =
                        IF sec = "legal" /\ st["documentation"] # "done"
                        THEN [i \in DOMAIN r.vals |-> FALSE] ELSE r.vals],
          result |-> j.result,
          inv    |-> j.inv \cup r.inv,
          ans    |-> j.ans \cup r.ans]

\* Joined with the Err of a section kept for later: lint() goes on to
\* lint_license before it looks at the results of the join.
Joined_license_first(j, sec, r) ==
    IF r.st = "failed"
    THEN [pc     |-> "license",
          status |-> [j.status EXCEPT ![sec] = "failed"],
          err    |-> [j.err EXCEPT ![sec] = r.err],
          pos    |-> [j.pos EXCEPT ![sec] = r.pos],
          vals   |-> [t \in Sections |-> NoVals],
          result |-> j.result,
          inv    |-> j.inv \cup r.inv,
          ans    |-> j.ans \cup r.ans]
    ELSE LET st == [j.status EXCEPT ![sec] = r.st] IN
         [pc     |-> IF \A t \in Sections : st[t] = "done" THEN "license" ELSE "join",
          status |-> st,
          err    |-> j.err,
          pos    |-> [j.pos EXCEPT ![sec] = r.pos],
          vals   |-> [j.vals EXCEPT ![sec] = r.vals],
          result |-> j.result,
          inv    |-> j.inv \cup r.inv,
          ans    |-> j.ans \cup r.ans]

\* tokio::try_join!: what the join does when a poll of the future of sec has
\* reached r.  An Err makes the join return that Err at once and drop the
\* four futures with everything they hold (a future that is suspended stays
\* so for good); when the last future is done the join returns the four
\* sections.
Joined(j, sec, r) ==
    IF r.st = "failed"
    THEN [pc     |-> "done",
          status |-> [j.status EXCEPT ![sec] = "failed"],
          err    |-> [j.err EXCEPT ![sec] = r.err],
          pos    |-> [j.pos EXCEPT ![sec] = r.pos],
          vals   |-> [t \in Sections |-> NoVals],
          result |-> Err(r.err),
          inv    |-> j.inv \cup r.inv,
          ans    |-> j.ans \cup r.ans]
    ELSE LET st == [j.status EXCEPT ![sec] = r.st] IN
         [pc     |-> IF \A t \in Sections : st[t] = "done" THEN "license" ELSE "join",
          status |-> st,
          err    |-> j.err,
          pos    |-> [j.pos EXCEPT ![sec] = r.pos],
          vals   |-> [j.vals EXCEPT ![sec] = r.vals],
          result |-> j.result,
          inv    |-> j.inv \cup r.inv,
          ans    |-> j.ans \cup r.ans]

Local(sec) == [vals |-> vals[sec], inv |-> {}, ans |-> {}]

\* One poll of the join polls the futures in S, none of which returns an Err;
\* r[sec] is what the poll of the future of sec reaches.  The futures share
\* nothing that they write, so the order among them makes no difference.
RECURSIVE PollAll(_, _, _)
PollAll(j, S, r) ==
    IF S = {} THEN j
    ELSE LET sec == CHOOSE t \in S : TRUE
         IN  PollAll(Joined(j, sec, r[sec]), S \ {sec}, r)

\* The first poll of the join polls the four futures one after the other, in
\* an order the source does not fix, and returns as soon as one of them
\* returns an Err.  So it polls all of them when none fails, and otherwise
\* some of those that do not fail (B) and then one that fails (f).
FirstPoll(j, r) ==
    LET failing == {sec \in Sections : r[sec].st = "failed"} IN
    IF failing = {} THEN {PollAll(j, Sections, r)}
    ELSE {Joined(PollAll(j, B, r), f, r[f]) :
            f \in failing, B \in SUBSET (Sections \ failing)}

\* calls, resp. ret, once the checks in S have been invoked, resp. have answered.
RECURSIVE Invoked(_, _), Answered(_, _)
Invoked(c, S) ==
    IF S = {} THEN c
    ELSE LET s == CHOOSE t \in S : TRUE
         IN  Invoked([c EXCEPT ![s] = @ + 1], S \ {s})
Answered(a, S) ==
    IF S = {} THEN a
    ELSE LET s == CHOOSE t \in S : TRUE
         IN  Answered([a EXCEPT ![s] = env[s]], S \ {s})

\* SetJoin with the repository metadata fetched again by the join's futures.
SetJoin_refetch(j) ==
    /\ pc' = j.pc
    /\ status' = j.status
    /\ err' = j.err
    /\ pos' = j.pos
    /\ vals' = j.vals
    /\ calls' = [Invoked(calls, j.inv) EXCEPT !["get_metadata"] = @ + 1]
    /\ ret' = Answered(ret, j.ans)
    /\ gh_md' = [homepage |-> env["homepage"], license |-> env["license"]]
    /\ result' = j.result
    /\ UNCHANGED <<env, md>>

SetJoin(j) ==
    /\ pc' = j.pc
    /\ status' = j.status
    /\ err' = j.err
    /\ pos' = j.pos
    /\ vals' = j.vals
    /\ calls' = Invoked(calls, j.inv)
    /\ ret' = Answered(ret, j.ans)
    /\ result' = j.result
    /\ UNCHANGED <<env, md, gh_md>>

\* What the first poll of each of the four futures reaches.
FirstRuns ==
    [documentation  |-> Run("documentation", 1, Local("documentation"), gh_md),
     best_practices |-> Run("best_practices", 1, Local("best_practices"), gh_md),
     security       |-> Run("security", 1, Local("security"), gh_md),
     legal          |-> Run("legal", 1, Local("legal"), gh_md)]

\* lint() reaches try_join! and the join is polled for the first time.
Poll ==
    /\ pc = "join"
    /\ \A sec \in Sections : status[sec] = "idle"
    /\ \E r \in {FirstRuns} :
         \E j \in FirstPoll(JoinState, r) : SetJoin(j)

\* The awaited check of sec answers and the join polls the future again.
Complete(sec) ==
    /\ pc = "join"
    /\ status[sec] = "awaiting"
    /\ \E r \in {Resume(sec, pos[sec], Local(sec), gh_md)} :
         \E j \in {Joined(JoinState, sec, r)} : SetJoin(j)

\* ------------------------------------------------------------------------
\* lint_license and the Report.

\* check::license::is_approved: membership in the approved list.
Approved == {"Apache-2.0", "MIT"}
is_approved(id) == id \in Approved

\* spdx_id without the NOASSERTION test.
spdx_id_declared(detected, gh) ==
    IF detected # None THEN detected
    ELSE IF gh.license # "none" THEN Some(gh.license)
    ELSE None

\* The SPDX id: the one detected in the license file, else the one GitHub
\* declares unless it is NOASSERTION.
spdx_id(detected, gh) ==
    IF detected # None THEN detected
    ELSE IF gh.license # "none" /\ gh.license # "NOASSERTION" THEN Some(gh.license)
    ELSE None

\* approved as a plain bool wrapped in Some: false when there is no id.
approved_always(spdx) == Some(IF spdx # None THEN is_approved(spdx[1]) ELSE FALSE)

approved(spdx) == IF spdx # None THEN Some(is_approved(spdx[1])) ELSE None

\* scanning_url with the configuration ignored.
scanning_url_ignored(m) == None

\* The scanning url the configuration carries, if any.
scanning_url(m) ==
    IF m # None /\ m[1].license_scanning # None THEN m[1].license_scanning[1].url
    ELSE None

Report(lic) ==
    [documentation  |-> vals["documentation"],
     license        |-> lic,
     best_practices |-> vals["best_practices"],
     security       |-> vals["security"],
     legal          |-> vals["legal"]]

\* LintLicense with the error of check::content::find swallowed (`.ok()`).
LintLicense_lenient ==
    /\ pc = "license"
    /\ pc' = "done"
    /\ LET detected == env["license.detect"]
           spdx     == spdx_id(Opt(detected), gh_md)
           found    == env["license.find"]
       IN  /\ calls' = [calls EXCEPT !["license.detect"] = @ + 1, !["license.find"] = @ + 1]
           /\ ret' = [ret EXCEPT !["license.detect"] = detected, !["license.find"] = found]
           /\ result' = IF detected = "E" THEN Err("license.detect")
                        ELSE Ok(Report([approved |-> approved(spdx),
                                        scanning |-> IF found = "E" THEN None ELSE Opt(found),
                                        spdx_id |-> spdx]))
    /\ UNCHANGED <<env, md, gh_md, status, err, pos, vals>>

\* license: lint_license(options.root, &md, &gh_md)?, and the Ok(Report {..}).
LintLicense ==
    /\ pc = "license"
    /\ pc' = "done"
    /\ LET detected == env["license.detect"]
           spdx     == spdx_id(Opt(detected), gh_md)
           url      == scanning_url(md)
           found    == env["license.find"]
       IN  IF detected = "E"
           THEN /\ calls' = [calls EXCEPT !["license.detect"] = @ + 1]
                /\ ret' = [ret EXCEPT !["license.detect"] = detected]
                /\ result' = Err("license.detect")
           ELSE IF url # None
           THEN /\ calls' = [calls EXCEPT !["license.detect"] = @ + 1]
                /\ ret' = [ret EXCEPT !["license.detect"] = detected]
                /\ result' = Ok(Report([approved |-> approved(spdx), scanning |-> url,
                                        spdx_id |-> spdx]))
           ELSE /\ calls' = [calls EXCEPT !["license.detect"] = @ + 1,
                                          !["license.find"] = @ + 1]
                /\ ret' = [ret EXCEPT !["license.detect"] = detected,
                                      !["license.find"] = found]
                /\ result' = IF found = "E" THEN Err("license.find")
                             ELSE Ok(Report([approved |-> approved(spdx),
                                             scanning |-> Opt(found),
                                             spdx_id |-> spdx]))
    /\ UNCHANGED <<env, md, gh_md, status, err, pos, vals>>

Next ==
    \/ ReadMetadata
    \/ GetMetadata
    \/ Poll
    \/ \E sec \in Sections : Complete(sec)
    \/ LintLicense

Spec == Init /\ [][Next]_vars

\* lint() under a scheduler that polls a task that has been woken, and with
\* checks that all answer in the end: a step that can be taken is taken.
FairInit ==
    /\ Inputs(MaxFairNonDefault)
    /\ pc = "start"
    /\ md = None
    /\ gh_md = Unfetched
    /\ status = [sec \in Sections |-> "idle"]
    /\ err = [sec \in Sections |-> "none"]
    /\ pos = [sec \in Sections |-> 0]
    /\ vals = [sec \in Sections |-> NoVals]
    /\ calls = [s \in Ops |-> 0]
    /\ ret = [s \in Ops |-> "none"]
    /\ result = [kind |-> "none", error |-> "none", report |-> None]

FairSpec == FairInit /\ [][Next]_vars /\ WF_vars(Next)

\* ------------------------------------------------------------------------
\* Properties.

Positions(sec) == 1..Len(Prog(sec))

\* The positions of the sources that follow, resp. precede, entry p in its chain.
After(sec, p) == LET e == Prog(sec)[p] IN (p + 1)..(p + (e.n - e.k))
Before(sec, p) == LET e == Prog(sec)[p] IN (p - (e.k - 1))..(p - 1)

\* Where each source stands: its section and position in it, its item and
\* check, its position k in its chain and the length n of that chain, the sources before and after it in its chain, and the sources that
\* come later in its section.
Place ==
    [s \in Sources |->
        LET sec == CHOOSE t \in Sections : \E q \in Positions(t) : Prog(t)[q].src = s
            p   == CHOOSE q \in Positions(sec) : Prog(sec)[q].src = s
            e   == Prog(sec)[p]
        IN  [sec |-> sec, p |-> p, item |-> e.item, fn |-> e.fn, k |-> e.k, n |-> e.n,
             before |-> {Prog(sec)[q].src : q \in Before(sec, p)},
             after  |-> {Prog(sec)[q].src : q \in After(sec, p)},
             later  |-> {Prog(sec)[q].src : q \in (p + 1)..Len(Prog(sec))}]]

\* The answer o of check fn counts as "false" in its chain.
Negative(fn, o) == o = "F" \/ (o = "E" /\ fn = "commits_have_dco_signature")

\* C1: in an OR-fallback chain, once a source has answered true (it is then
\* the first of its chain to do so) no later source of the chain is ever
\* invoked, whatever it would answer, and the item is true: in the section's
\* locals as long as lint has not failed, and in the report.
C1_FirstTrueWins ==
    \A s \in Sources :
        ret[s] = "T" =>
            LET i == Place[s] IN
            i.n >= 2 =>
                /\ \A t \in i.after : calls[t] = 0
                /\ result.kind # "err" =>
                        (i.item \in DOMAIN vals[i.sec] /\ vals[i.sec][i.item])
                /\ result.kind = "ok" => result.report[1][i.sec][i.item]

\* A run that returned a report in which a source answered true while the
\* next source of its chain would have answered true or failed.
C1_Witness ==
    /\ result.kind = "ok"
    /\ \E s \in Sources :
        /\ ret[s] = "T"
        /\ \E t \in Place[s].after : env[t] # "F"

\* C2: when a check other than the DCO commit inspection fails, its section
\* future fails with the error of that check, lint fails with it, the item
\* is never bound, and no later source of the section (of the same chain or
\* of a later item) is ever invoked.
C2_ErrorAborts ==
    \A s \in Sources :
        ret[s] = "E" =>
            LET i == Place[s] IN
            i.fn # "commits_have_dco_signature" =>
                /\ status[i.sec] = "failed"
                /\ err[i.sec] = s
                /\ result = Err(s)
                /\ i.item \notin DOMAIN vals[i.sec]
                /\ \A t \in i.later : calls[t] = 0

\* A check failed in the middle of a section and a later source of the same
\* section would have answered true.
C2_Witness ==
    \E s \in Sources :
        /\ ret[s] = "E"
        /\ Place[s].fn # "commits_have_dco_signature"
        /\ status[Place[s].sec] = "failed"
        /\ \E t \in Place[s].later : env[t] = "T"

\* With the inputs of this run, the section of source s fails if control
\* gets as far as s: s fails with an error that is propagated, no source
\* before it in its chain answers true, and the homepage is there to be
\* fetched if s is the remote match.
FailsAt(s) ==
    /\ env[s] = "E"
    /\ Place[s].fn # "commits_have_dco_signature"
    /\ \A t \in Place[s].before : env[t] # "T"
    /\ Place[s].fn = "remote_matches" => gh_md.homepage \notin {"none", ""}

\* The sections that fail when they are left to run to their end, and the
\* error each of them fails with: that of the first source it fails at.
WouldFail == {Place[s].sec : s \in {t \in Sources : FailsAt(t)}}
WouldFailWith(sec) ==
    CHOOSE s \in Sources :
        /\ FailsAt(s)
        /\ Place[s].sec = sec
        /\ \A t \in Sources :
            (FailsAt(t) /\ Place[t].sec = sec) => Place[s].p <= Place[t].p

\* C3: when exactly one of the four sections would fail and the three others
\* would succeed, lint never gets to the license and, however the futures are
\* interleaved, ends with an error that is the error of that section.
C3_SingleFailure ==
    (pc \in {"license", "done"} /\ ret["get_metadata"] = "ok") =>
        \A F \in {WouldFail} :
            Cardinality(F) = 1 =>
                \A f \in F :
                    /\ pc = "done"
                    /\ result.kind = "err"
                    /\ result.error = WouldFailWith(f)
                    /\ status[f] = "failed"
                    /\ err[f] = WouldFailWith(f)

\* lint has ended, exactly one section would fail, and another section had
\* already returned when it did.
C3_Witness ==
    /\ ret["get_metadata"] = "ok"
    /\ Cardinality(WouldFail) = 1
    /\ pc = "done"
    /\ \E t \in Sections : status[t] = "done"

\* C4: as soon as a section future has failed, lint has failed with the error
\* of that section: it is the only section that failed, the join is over
\* whatever the state of the other futures, and what they had bound is
\* dropped; there is no report.
C4_FailFast ==
    \A sec \in Sections :
        status[sec] = "failed" =>
            /\ pc = "done"
            /\ result.kind = "err"
            /\ result.error = err[sec]
            /\ result.report = None
            /\ \A t \in Sections \ {sec} : status[t] # "failed"
            /\ \A t \in Sections : vals[t] = NoVals

\* A section failed while a second one, which would fail too, was still
\* suspended on a check and a third one had returned.
C4_Witness ==
    \E sec, t, u \in Sections :
        /\ status[sec] = "failed"
        /\ status[t] = "awaiting"
        /\ ret[Prog(t)[pos[t]].src] = "none"
        /\ t \in WouldFail
        /\ status[u] = "done"

\* Some step of lint failed: a check or a fetch whose error is propagated.
StepFailed == \E s \in Ops : ret[s] = "E" /\ s # "dco.commits"

ReportSections == {"documentation", "license", "best_practices", "security", "legal"}

\* C5: lint returns nothing before its end, and at its end either an error
\* and no report, or a report with the five sections; it returns an error
\* exactly when the configuration load, the metadata fetch, a check of one
\* of the four sections or a check of the license failed.
C5_AllOrNothing ==
    /\ pc # "done" => (result.kind = "none" /\ result.report = None)
    /\ pc = "done" =>
        /\ result.kind \in {"ok", "err"}
        /\ (result.kind = "err") <=> StepFailed
        /\ result.kind = "err" => (result.report = None /\ result.error # "none")
        /\ result.kind = "ok" =>
            /\ Len(result.report) = 1
            /\ DOMAIN result.report[1] = ReportSections
            /\ \A sec \in Sections :
                status[sec] = "done" /\ result.report[1][sec] = vals[sec]
            /\ calls["license.detect"] = 1

\* lint ended with an error of the license resolution after the four
\* sections had returned.
C5_Witness ==
    /\ pc = "done"
    /\ result.kind = "err"
    /\ result.error = "license.find"
    /\ \A sec \in Sections : status[sec] = "done"

\* C6: an error of the commit inspection never leaves lint_best_practices:
\* the last pull request is then checked, as after a plain false, and dco is
\* its answer; an error of that check fails the section and lint; and when
\* the commit inspection answers true the last pull request is not checked.
C6_DcoAsymmetry ==
    LET c  == "dco.commits"
        r  == "dco.last_pr"
        bp == "best_practices"
    IN  /\ err[bp] # c
        /\ result.error # c
        /\ ret[c] \in {"F", "E"} => calls[r] = 1
        /\ (ret[c] \in {"F", "E"} /\ ret[r] \in {"T", "F"} /\ result.kind # "err") =>
                ("dco" \in DOMAIN vals[bp] /\ vals[bp]["dco"] = (ret[r] = "T"))
        /\ ret[r] = "E" =>
                (status[bp] = "failed" /\ err[bp] = r /\ result.kind = "err" /\ result.error = r)
        /\ ret[c] = "T" =>
                /\ calls[r] = 0
                /\ result.kind # "err" => ("dco" \in DOMAIN vals[bp] /\ vals[bp]["dco"])

\* The commit inspection failed, the last pull request has the DCO check and
\* the report says dco.
C6_Witness ==
    /\ ret["dco.commits"] = "E"
    /\ ret["dco.last_pr"] = "T"
    /\ result.kind = "ok"
    /\ result.report[1]["best_practices"]["dco"]

\* C7: a source is invoked only once every source before it in its chain has
\* been invoked and has answered negatively; in particular a gateway call is
\* made only after every local source of its item has answered negatively.
C7_PriorityOrder ==
    \A s \in Sources :
        calls[s] > 0 =>
            LET i == Place[s] IN
            /\ \A t \in i.before : calls[t] = 1 /\ Negative(Place[t].fn, ret[t])
            /\ Async(i.fn) =>
                \A t \in i.before \cup i.after :
                    ~Async(Place[t].fn) => Negative(Place[t].fn, ret[t])

\* The third source of a chain has been invoked while another section is
\* suspended in the middle of its own work.
C7_Witness ==
    \E s \in Sources :
        /\ Place[s].k = 3
        /\ calls[s] = 1
        /\ \E t \in Sections \ {Place[s].sec} : status[t] = "awaiting"

\* C8: in the license section of a report, approved is absent exactly when
\* spdx_id is absent, and otherwise is whether that id is on the approved list.
C8_ApprovedFollowsSpdx ==
    result.kind = "ok" =>
        LET lic == result.report[1]["license"] IN
        /\ (lic.approved = None) <=> (lic.spdx_id = None)
        /\ lic.spdx_id # None => lic.approved = Some(lic.spdx_id[1] \in Approved)

\* A report whose license id is not on the approved list.
C8_Witness ==
    /\ result.kind = "ok"
    /\ result.report[1]["license"].spdx_id # None
    /\ result.report[1]["license"].approved = Some(FALSE)

\* C9: the spdx_id of a report is the id detected in the license file if
\* there is one, else the id GitHub declares if there is one and it is not
\* NOASSERTION, else absent; with NOASSERTION declared and nothing detected,
\* spdx_id and approved are both absent.
C9_SpdxResolution ==
    result.kind = "ok" =>
        LET lic == result.report[1]["license"]
            d   == ret["license.detect"]
            l   == gh_md.license
        IN  /\ d \notin {"none", "E"} => lic.spdx_id = Some(d)
            /\ (d = "none" /\ l \notin {"none", "NOASSERTION"}) => lic.spdx_id = Some(l)
            /\ (d = "none" /\ l \in {"none", "NOASSERTION"}) => lic.spdx_id = None
            /\ (d = "none" /\ l = "NOASSERTION") => lic.approved = None

\* A report for a repository that declares NOASSERTION and has no license
\* file that is recognised.
C9_Witness ==
    /\ result.kind = "ok"
    /\ ret["license.detect"] = "none"
    /\ gh_md.license = "NOASSERTION"

\* C10: with no homepage, or an empty one, the homepage is never fetched and
\* a report has website and trademark_footer false; with a non-empty
\* homepage a report has website true and trademark_footer is the answer of
\* the remote match.
C10_Homepage ==
    ret["get_metadata"] = "ok" =>
        LET h  == gh_md.homepage
            tm == "trademark_footer.remote"
        IN  /\ h \in {"none", ""} =>
                /\ calls[tm] = 0
                /\ result.kind = "ok" =>
                    /\ ~result.report[1]["documentation"]["website"]
                    /\ ~result.report[1]["legal"]["trademark_footer"]
            /\ (h \notin {"none", ""} /\ result.kind = "ok") =>
                    /\ result.report[1]["documentation"]["website"]
                    /\ result.report[1]["legal"]["trademark_footer"] = (ret[tm] = "T")

\* A report for a repository whose homepage is the empty string and whose
\* remote match would have answered true.
C10_Witness ==
    /\ result.kind = "ok"
    /\ gh_md.homepage = ""
    /\ env["trademark_footer.remote"] = "T"

\* C11: when the configuration carries a license scanning url, the scanning
\* field of a report is that url and the README is never searched for one;
\* when there is no configuration, or it has no license_scanning entry, or
\* the entry has no url, the README is searched once and the scanning field
\* is what the search found (absent if it found nothing).
C11_ScanningUrl ==
    LET c == ret["config"] IN
    /\ c \notin {"none", "None", "NoScanning", "NoUrl", "E"} =>
        /\ calls["license.find"] = 0
        /\ result.kind = "ok" => result.report[1]["license"].scanning = Some(c)
    /\ (c \in {"None", "NoScanning", "NoUrl"} /\ result.kind = "ok") =>
        /\ calls["license.find"] = 1
        /\ result.report[1]["license"].scanning = Opt(ret["license.find"])

\* A report for a configuration that carries a url while the README search
\* would have found another one.
C11_Witness ==
    /\ result.kind = "ok"
    /\ ret["config"] = "https://scan.example/p"
    /\ env["license.find"] = "https://app.fossa.com/p"

C13_ConfigFirst ==
    /\ calls["config"] <= 1
    /\ pc # "start" => calls["config"] = 1
    /\ (\/ \E s \in Ops \ {"config"} : calls[s] > 0
        \/ \E sec \in Sections : status[sec] # "idle") =>
         /\ calls["config"] = 1
         /\ ret["config"] # "E"
    /\ ret["config"] = "E" =>
         /\ pc = "done"
         /\ result = Err("config")
         /\ \A s \in Ops \ {"config"} : calls[s] = 0
         /\ \A sec \in Sections : status[sec] = "idle"

\* lint() has failed on the configuration of a repository whose metadata
\* could not have been fetched either.
C13_Witness ==
    /\ pc = "done"
    /\ ret["config"] = "E"
    /\ env["get_metadata"] = "E"
    /\ result = Err("config")

\* C14: when every source of an item's chain has answered false, none of
\* them with an error that leaves the function, the item is false: in the
\* section's locals as long as lint has not failed, and in the report.
\* For dco the inspection of the commits may have failed instead of
\* answering false: that error counts as false.
C14_AllFalse ==
    \A s \in Sources :
        LET i == Place[s] IN
        (/\ i.k = i.n
         /\ Negative(i.fn, ret[s])
         /\ \A t \in i.before : Negative(Place[t].fn, ret[t])) =>
            /\ result.kind # "err" =>
                    (i.item \in DOMAIN vals[i.sec] /\ ~vals[i.sec][i.item])
            /\ result.kind = "ok" => ~result.report[1][i.sec][i.item]

\* A report without dco, for a repository whose commits could not be
\* inspected and whose last pull request has no DCO check.
C14_Witness ==
    /\ result.kind = "ok"
    /\ ret["dco.commits"] = "E"
    /\ ret["dco.last_pr"] = "F"
    /\ ~result.report[1]["best_practices"]["dco"]

\* The fields of the five structs of a Report.
Fields ==
    [documentation  |-> {"adopters", "code_of_conduct", "contributing", "changelog",
                         "governance", "maintainers", "readme", "roadmap", "website"},
     license        |-> {"approved", "scanning", "spdx_id"},
     best_practices |-> {"artifacthub_badge", "community_meeting", "dco",
                         "openssf_badge", "recent_release"},
     security       |-> {"security_policy"},
     legal          |-> {"trademark_footer"}]

OptionOf(S) == {None} \cup {Some(v) : v \in S}

Strings(slot) == {Values(slot)[i] : i \in 1..Len(Values(slot))} \ {"none", "E"}

\* C15: every report has the five sections, and each section has exactly
\* its fields: nine booleans in documentation, five in best_practices, one
\* in security, one in legal, and the three optional values of license.
\* Nothing found is false, or an absent value: never a missing field.
C15_Schema ==
    result.kind = "ok" =>
        LET r == result.report[1] IN
        /\ DOMAIN r = ReportSections
        /\ \A sec \in ReportSections : DOMAIN r[sec] = Fields[sec]
        /\ \A sec \in ReportSections \ {"license"} :
                \A f \in Fields[sec] : r[sec][f] \in BOOLEAN
        /\ r["license"].approved \in OptionOf(BOOLEAN)
        /\ r["license"].scanning \in
                OptionOf(Strings("license.find") \cup Strings("config"))
        /\ r["license"].spdx_id \in
                OptionOf(Strings("license.detect") \cup Strings("license"))

\* The report of a repository in which nothing is found.
C15_Witness ==
    /\ result.kind = "ok"
    /\ \A sec \in ReportSections \ {"license"} :
            \A f \in Fields[sec] : ~result.report[1][sec][f]
    /\ result.report[1]["license"] =
            [approved |-> None, scanning |-> None, spdx_id |-> None]

\* C16: when the scheduler is fair and every check that is invoked answers
\* in the end, lint() returns, with a report or with an error: it does not
\* stay in the join for ever.
C16_Terminates == <>(pc = "done" /\ result.kind \in {"ok", "err"})

\* lint() has returned an error from the join while another future of the
\* join was still suspended on a check.
C16_Witness ==
    /\ pc = "done"
    /\ result.kind = "err"
    /\ \E sec \in Sections : status[sec] = "failed"
    /\ \E sec \in Sections : status[sec] = "awaiting"

\* The inputs of the run, none of which is an error.
NoErrors == \A s \in Slots : env[s] # "E"

\* The metadata of the repository, as the inputs have it.
Remote == [homepage |-> env["homepage"], license |-> env["license"]]

\* C17: when no check fails, the report is a function of what the checks
\* answer, whatever the order in which the futures of the join were polled
\* and the awaited checks answered: an item is true iff a source of its
\* chain that is attempted answers true, website follows the homepage, and
\* the license follows the detection, the metadata and the configuration.
C17_ScheduleIndependent ==
    (result.kind = "ok" /\ NoErrors) =>
        LET r == result.report[1] IN
        /\ \A s \in Sources :
              LET i == Place[s] IN
              i.k = 1 =>
                r[i.sec][i.item] =
                    \E t \in {s} \cup i.after :
                        /\ env[t] = "T"
                        /\ i.sec = "legal" => has_homepage(Remote)
        /\ r["documentation"]["website"] = website(Remote)
        /\ r["license"] =
              LET spdx == spdx_id(Opt(env["license.detect"]), Remote)
                  url  == scanning_url(Metadata_from(env["config"]))
              IN  [approved |-> approved(spdx),
                   scanning |-> IF url # None THEN url ELSE Opt(env["license.find"]),
                   spdx_id  |-> spdx]

\* A report with the trademark footer, for which the futures of
\* lint_documentation, lint_best_practices and lint_legal have all been
\* suspended on a check: the checks answered in one of several orders.
C17_Witness ==
    /\ result.kind = "ok"
    /\ NoErrors
    /\ ret["trademark_footer.remote"] = "T"
    /\ ret["changelog.release"] = "F"
    /\ ret["dco.last_pr"] = "F"
    /\ result.report[1]["legal"]["trademark_footer"]

\* C18: a license source is evaluated only once the four futures of the
\* join have returned Ok; when a section has failed none is ever evaluated,
\* and the error lint() returns is that of a license source only when no
\* section has failed.
C18_LicenseAfterJoin ==
    /\ (\E s \in LicenseSources : calls[s] > 0) =>
            \A sec \in Sections : status[sec] = "done"
    /\ (\E sec \in Sections : status[sec] = "failed") =>
            /\ \A s \in LicenseSources : calls[s] = 0
            /\ result.kind = "err"
            /\ result.error \notin LicenseSources
    /\ pc \in {"start", "fetch", "join"} => \A s \in LicenseSources : calls[s] = 0

\* lint() has returned the error of a section for a repository whose
\* license detection would have failed as well.
C18_Witness ==
    /\ pc = "done"
    /\ \E sec \in Sections : status[sec] = "failed"
    /\ env["license.detect"] = "E"
    /\ calls["license.detect"] = 0
    /\ result.kind = "err"

\* C19: in every report, legal.trademark_footer is true only if
\* documentation.website is true: the footer is looked for only on a
\* homepage that is present and not empty, which is what website says.
C19_FooterNeedsWebsite ==
    result.kind = "ok" =>
        (result.report[1]["legal"]["trademark_footer"] =>
            result.report[1]["documentation"]["website"])

\* A report with the trademark footer.
C19_Witness ==
    /\ result.kind = "ok"
    /\ ret["trademark_footer.remote"] = "T"
    /\ result.report[1]["legal"]["trademark_footer"]
    /\ result.report[1]["documentation"]["website"]

====
